---- MODULE Spec2Model ----
(***************************************************************************)
(* The session controller of src/start.py (class GeoAnalysisApp): the      *)
(* four-state machine, the periodic capture-and-send timer, the background *)
(* worker threads and the callbacks they post to the Tk loop.              *)
(*                                                                         *)
(* Threads.  The Tk main loop runs one handler at a time: a button         *)
(* command, a timer tick (root.after(FRAME_INTERVAL_MS, ...)) or a         *)
(* callback posted with root.after(0, ...).  Every handler is one action.  *)
(* A worker thread (threading.Thread) runs concurrently with the loop, so  *)
(* each of its accesses to a shared field is an action of its own.         *)
(*                                                                         *)
(* Commands.  start_session, toggle_pause_resume, stop_and_analyze and     *)
(* clear_history are the controller's entry points, each the command of a  *)
(* button.  update_button_states enables and disables the buttons; `btn`   *)
(* holds the result.  Under Spec a command runs when its button is pressed *)
(* and enabled, which is all a user of the window can do.  Under SpecApi   *)
(* a run of Spec is followed by calls of entry points whose buttons are    *)
(* disabled, so that the guards written in the handlers themselves decide  *)
(* what happens.                                                           *)
(*                                                                         *)
(* An image is named by the ordinal of the tick that dispatched its unit.  *)
(***************************************************************************)
EXTENDS Integers, Sequences, FiniteSets, TLC

\* ---------------------------------------------------------------- bounds
MaxTicks    == 2   \* timer ticks that dispatch a capture-and-send unit
MaxSessions == 2   \* chat sessions ever created (model.start_chat)
MaxStops    == 1   \* final analyses ever started
MaxPending  == 2   \* timer jobs pending at once in the Tk timer queue
MaxUnits    == 3   \* ticks that dispatch a unit when only units run (SpecUnits)
MaxDirect   == 1   \* entry points called past a disabled button (SpecApi)
MaxReplyLen == 4   \* tokens of a final reply (ParseSpec)

\* ------------------------------------------------------------- constants
None == 0          \* Python's None for chat_session and frame_sender_job_id

States == {"IDLE", "RECORDING", "PAUSED", "ANALYZING"}

JSON_START == "<<<JSON_START>>>"
JSON_END   == "<<<JSON_END>>>"

VARIABLES
    state,                \* self.state
    chat_session,         \* self.chat_session: None or a session handle
    captured_frames,      \* self.captured_frames: sequence of images
    frame_count,          \* self.frame_count
    frame_sender_job_id,  \* self.frame_sender_job_id: None or a Tk job id
    btn,                  \* the four buttons: enabled flags and texts
    status_label,         \* text of self.status_label
    frame_count_label,    \* number shown by self.frame_count_label
    analysis_text,        \* lines of the Analysis tab
    coords_status_label,  \* text under the map
    markers,              \* markers on the map widget
    map_view,             \* position and zoom of the map widget
    messagebox,           \* dialog shown by the handler that ran last
    pending,              \* Tk timer queue: job ids of armed send_frame_task ticks
    uiQueue,              \* callbacks posted with root.after(0, ...), in order
    workers,              \* running _send_frame_worker threads
    analysts,             \* running _final_analysis_worker threads
    nDispatched,          \* capture-and-send units dispatched so far
    nSessions,            \* sessions created so far
    nStops,               \* final analyses started so far
    finalized,            \* per final analysis: times its completion step ran
    stop_log,             \* per final analysis: the frames held at its stop, how it ended
    final_response,       \* final_response.text of the last final-analysis reply
    nDirect,              \* entry points called past a disabled button so far
    ui_pc                 \* the UI thread: in the Tk loop, or the line of the handler it is at

ctl   == <<state, chat_session, captured_frames, frame_count, frame_sender_job_id>>
view  == <<btn, status_label, frame_count_label, analysis_text,
           coords_status_label, markers, map_view, messagebox>>
sched == <<pending, uiQueue, workers, analysts>>
cnt   == <<nDispatched, nSessions, nStops, finalized>>
hist  == <<stop_log, final_response>>
vars  == <<ctl, view, sched, cnt, hist, nDirect, ui_pc>>

\* ------------------------------------------------------------ text values
\* A line of text shown to the user: its kind, a number and a reply excerpt.
Msg(k, n, t) == [k |-> k, n |-> n, t |-> t]
Line(k)      == Msg(k, 0, <<>>)

\* -------------------------------------------------- function utilities
Drop(f, x) == [y \in DOMAIN f \ {x} |-> f[y]]
Put(f, x, v) == [y \in DOMAIN f \cup {x} |-> IF y = x THEN v ELSE f[y]]

\* ---------------------------------------------------------------- widgets
\* update_status: the label is rewritten only for a non-empty text.
update_status(text, old) == IF text # "" THEN text ELSE old

\* update_results on the Analysis tab: replace the text, or append a line.
update_results_analysis(old, line, append) ==
    IF append THEN Append(old, line) ELSE <<line>>

\* update_button_states: the widget configuration for the current state.
update_button_states(st, sess, b) ==
    CASE st = "IDLE" ->
           [b EXCEPT !.start = TRUE, !.pause = FALSE, !.pause_text = "Pause",
                     !.stop = FALSE, !.clear = (sess # None)]
      [] st = "RECORDING" ->
           [b EXCEPT !.start = FALSE, !.pause = TRUE, !.pause_text = "Pause",
                     !.stop = TRUE, !.clear = FALSE]
      [] st = "PAUSED" ->
           [b EXCEPT !.start = FALSE, !.pause = TRUE, !.pause_text = "Resume",
                     !.stop = TRUE, !.clear = FALSE]
      [] st = "ANALYZING" ->
           [b EXCEPT !.start = FALSE, !.pause = FALSE,
                     !.stop = FALSE, !.stop_text = "Analyzing...", !.clear = FALSE]
      [] OTHER -> b

\* ------------------------------------------------------------- the timer
\* root.after(FRAME_INTERVAL_MS, ...) returns a job id never in use before.
\* Only frame_sender_job_id and the timer queue hold job ids, so the least
\* id held by neither stands for the fresh one.
NewJob(pend, stored) ==
    CHOOSE j \in 1..(MaxPending + 2) :
        /\ j \notin pend /\ j # stored
        /\ \A k \in 1..(MaxPending + 2) : (k \notin pend /\ k # stored) => j <= k

\* schedule_next_frame: arms a tick only while RECORDING.
ScheduleArms(st) == st = "RECORDING"

schedule_next_frame_job(st, pend, stored) ==
    IF ScheduleArms(st) THEN NewJob(pend, stored) ELSE stored

schedule_next_frame_pending(st, pend, stored) ==
    IF ScheduleArms(st) THEN pend \cup {NewJob(pend, stored)} ELSE pend

\* root.after_cancel(job): a job that already ran is ignored.
after_cancel(pend, job) == pend \ {job}

\* ------------------------------------------------------------------ Init
Init ==
    /\ state = "IDLE"
    /\ chat_session = None
    /\ captured_frames = <<>>
    /\ frame_count = 0
    /\ frame_sender_job_id = None
    /\ btn = update_button_states("IDLE", None,
                [start |-> TRUE, pause |-> FALSE, pause_text |-> "Pause",
                 stop |-> FALSE, stop_text |-> "Stop & Analyze", clear |-> TRUE])
    /\ status_label = "IDLE"
    /\ frame_count_label = 0
    /\ analysis_text = <<Line("Instructions")>>
    /\ coords_status_label = Line("Coordinates will be plotted here after analysis.")
    /\ markers = <<>>
    /\ map_view = [lat |-> 0, lon |-> 0, zoom |-> 1]
    /\ messagebox = "none"
    /\ pending = {}
    /\ uiQueue = <<>>
    /\ workers = <<>>
    /\ analysts = <<>>
    /\ nDispatched = 0
    /\ nSessions = 0
    /\ nStops = 0
    /\ finalized = <<>>
    /\ stop_log = <<>>
    /\ final_response = [got |-> FALSE, text |-> <<>>]
    /\ nDirect = 0
    /\ ui_pc = "loop"

\* -------------------------------------------------------------- commands
\* start_session, line 251: a session is created only when none exists.
StartCreates(sess) == sess = None

\* start_session, line 263.
StartState == "RECORDING"

\* Lines 263-267, the end of start_session.
StartRecording ==
    /\ state' = StartState
    /\ status_label' = update_status(state', status_label)
    /\ btn' = update_button_states(state', chat_session', btn)
    /\ frame_sender_job_id' = schedule_next_frame_job(state', pending, frame_sender_job_id)
    /\ pending' = schedule_next_frame_pending(state', pending, frame_sender_job_id)

\* What a step of a handler on the UI thread leaves alone besides the
\* variables it names: the threads, the posted callbacks and the counters.
HandlerKeeps == UNCHANGED <<uiQueue, workers, analysts, nDispatched, nStops, finalized, hist>>

\* start_session up to the store of line 254 (a new session), or all of it
\* (a session exists).  Each store of the new-session branch is a step of its
\* own: the capture-and-send threads run on between them.
start_session ==
    /\ ui_pc = "loop"
    /\ Cardinality(pending) < MaxPending
    /\ StartCreates(chat_session) => nSessions < MaxSessions
    /\ IF StartCreates(chat_session)
       THEN /\ analysis_text' =
                 update_results_analysis(analysis_text, Line("Starting new session..."), FALSE)
            /\ chat_session' = nSessions + 1
            /\ nSessions' = nSessions + 1
            /\ ui_pc' = "start_session_255"
            /\ UNCHANGED <<state, captured_frames, frame_count, status_label, btn,
                           frame_sender_job_id, pending>>
       ELSE /\ analysis_text' =
                 update_results_analysis(analysis_text, Line("Resuming session..."), FALSE)
            /\ StartRecording
            /\ UNCHANGED <<chat_session, nSessions, captured_frames, frame_count, ui_pc>>
    /\ messagebox' = "none"
    /\ UNCHANGED <<frame_count_label, coords_status_label, markers, map_view>>
    /\ HandlerKeeps

\* start_session, line 255: self.captured_frames = [].
start_session_255 ==
    /\ ui_pc = "start_session_255"
    /\ captured_frames' = <<>>
    /\ ui_pc' = "start_session_256"
    /\ UNCHANGED <<state, chat_session, frame_count, frame_sender_job_id, view, pending,
                   nSessions, nDirect>>
    /\ HandlerKeeps

\* start_session, line 256: self.frame_count = 0.
start_session_256 ==
    /\ ui_pc = "start_session_256"
    /\ frame_count' = 0
    /\ ui_pc' = "start_session_257"
    /\ UNCHANGED <<state, chat_session, captured_frames, frame_sender_job_id, view,
                   pending, nSessions, nDirect>>
    /\ HandlerKeeps

\* start_session, line 257: update_frame_count shows the counter as it is
\* now.
start_session_257 ==
    /\ ui_pc = "start_session_257"
    /\ frame_count_label' = frame_count
    /\ ui_pc' = "start_session_263"
    /\ UNCHANGED <<ctl, btn, status_label, analysis_text, coords_status_label, markers,
                   map_view, messagebox, pending, nSessions, nDirect>>
    /\ HandlerKeeps

\* start_session from line 263: the recording starts.
start_session_263 ==
    /\ ui_pc = "start_session_263"
    /\ StartRecording
    /\ ui_pc' = "loop"
    /\ UNCHANGED <<chat_session, captured_frames, frame_count, frame_count_label,
                   analysis_text, coords_status_label, markers, map_view, messagebox,
                   nSessions, nDirect>>
    /\ HandlerKeeps

\* Mutant of ToggleState: pause leaves the state RECORDING.
ToggleState_no_pause(st) == IF st = "PAUSED" THEN "RECORDING" ELSE st

\* toggle_pause_resume, lines 271-284: the state it moves to.
ToggleState(st) ==
    IF st = "RECORDING" THEN "PAUSED"
    ELSE IF st = "PAUSED" THEN "RECORDING"
    ELSE st

toggle_pause_resume ==
    /\ ui_pc = "loop"
    /\ state = "PAUSED" => Cardinality(pending) < MaxPending
    /\ state' = ToggleState(state)
    /\ status_label' = update_status(IF state \in {"RECORDING", "PAUSED"}
                                     THEN state' ELSE "", status_label)
    /\ IF state = "RECORDING"
       THEN \* pause: cancel the scheduled tick
            IF frame_sender_job_id # None
            THEN /\ pending' = after_cancel(pending, frame_sender_job_id)
                 /\ frame_sender_job_id' = None
            ELSE UNCHANGED <<pending, frame_sender_job_id>>
       ELSE IF state = "PAUSED"
       THEN \* resume: schedule_next_frame
            /\ frame_sender_job_id' =
                 schedule_next_frame_job(state', pending, frame_sender_job_id)
            /\ pending' = schedule_next_frame_pending(state', pending, frame_sender_job_id)
       ELSE UNCHANGED <<pending, frame_sender_job_id>>
    /\ btn' = update_button_states(state', chat_session, btn)
    /\ messagebox' = "none"
    /\ UNCHANGED <<chat_session, captured_frames, frame_count, frame_count_label,
                   analysis_text, coords_status_label, markers, map_view,
                   uiQueue, workers, analysts, nDispatched, nSessions, nStops,
                   finalized, hist, ui_pc>>

\* stop_and_analyze, line 342: the states from which stop is accepted.
StopAllowed(st) == st \in {"RECORDING", "PAUSED"}

stop_and_analyze ==
    /\ ui_pc = "loop"
    /\ StopAllowed(state) => nStops < MaxStops
    /\ IF ~StopAllowed(state)
       THEN UNCHANGED <<ctl, btn, status_label, pending, analysts, nStops, finalized>>
       ELSE /\ state' = "ANALYZING"
            /\ status_label' = update_status(state', status_label)
            /\ btn' = update_button_states(state', chat_session,
                         [btn EXCEPT !.stop_text = "Analyzing..."])
            /\ IF frame_sender_job_id # None
               THEN /\ pending' = after_cancel(pending, frame_sender_job_id)
                    /\ frame_sender_job_id' = None
               ELSE UNCHANGED <<pending, frame_sender_job_id>>
            \* threading.Thread(target=self._final_analysis_worker).start()
            /\ nStops' = nStops + 1
            /\ analysts' = Put(analysts, nStops + 1,
                               [pc |-> "check_session", n |-> 0, parts |-> <<>>,
                                sess |-> None, todo |-> <<>>, then |-> ""])
            /\ finalized' = Put(finalized, nStops + 1, 0)
            /\ UNCHANGED <<chat_session, captured_frames, frame_count>>
    /\ messagebox' = "none"
    /\ UNCHANGED <<frame_count_label, analysis_text, coords_status_label, markers,
                   map_view, uiQueue, workers, nDispatched, nSessions, final_response,
                   ui_pc>>

\* Mutant of ClearAllowed: the guard of line 487 left out.
ClearAllowed_unguarded(st) == TRUE

\* clear_history, line 487: the states from which clear is accepted.
ClearAllowed(st) == st \in {"IDLE", "ANALYZING"}

\* clear_history, line 497.
ClearedSession == None

\* clear_history up to the store of line 497, or all of it (the clear is
\* refused).  Each store of lines 497-501 is a step of its own: the
\* capture-and-send threads run on between them.
clear_history ==
    /\ ui_pc = "loop"
    /\ IF ~ClearAllowed(state)
       THEN /\ messagebox' = "showwarning"
            /\ UNCHANGED <<ctl, pending, ui_pc>>
       ELSE /\ IF frame_sender_job_id # None
               THEN /\ pending' = after_cancel(pending, frame_sender_job_id)
                    /\ frame_sender_job_id' = None
               ELSE UNCHANGED <<pending, frame_sender_job_id>>
            /\ chat_session' = ClearedSession
            /\ ui_pc' = "clear_history_498"
            /\ messagebox' = "none"
            /\ UNCHANGED <<state, captured_frames, frame_count>>
    /\ UNCHANGED <<btn, status_label, frame_count_label, analysis_text,
                   coords_status_label, markers, map_view, nSessions>>
    /\ HandlerKeeps

\* clear_history, line 498: self.captured_frames = [].
clear_history_498 ==
    /\ ui_pc = "clear_history_498"
    /\ captured_frames' = <<>>
    /\ ui_pc' = "clear_history_499"
    /\ UNCHANGED <<state, chat_session, frame_count, frame_sender_job_id, view, pending,
                   nSessions, nDirect>>
    /\ HandlerKeeps

\* clear_history, line 499: self.frame_count = 0.
clear_history_499 ==
    /\ ui_pc = "clear_history_499"
    /\ frame_count' = 0
    /\ ui_pc' = "clear_history_500"
    /\ UNCHANGED <<state, chat_session, captured_frames, frame_sender_job_id, view,
                   pending, nSessions, nDirect>>
    /\ HandlerKeeps

\* clear_history, line 500: update_frame_count shows the counter as it is
\* now.
clear_history_500 ==
    /\ ui_pc = "clear_history_500"
    /\ frame_count_label' = frame_count
    /\ ui_pc' = "clear_history_501"
    /\ UNCHANGED <<ctl, btn, status_label, analysis_text, coords_status_label, markers,
                   map_view, messagebox, pending, nSessions, nDirect>>
    /\ HandlerKeeps

\* clear_history from line 501: the state, the tabs, the map and the buttons
\* are reset.
clear_history_501 ==
    /\ ui_pc = "clear_history_501"
    /\ state' = "IDLE"
    /\ status_label' = update_status(state', status_label)
    /\ analysis_text' = update_results_analysis(analysis_text,
                           Line("History cleared. Ready for a new session."), FALSE)
    /\ markers' = <<>>
    /\ coords_status_label' = Line("Coordinates will be plotted here after analysis.")
    /\ map_view' = [lat |-> 0, lon |-> 0, zoom |-> 1]
    /\ btn' = update_button_states(state', chat_session, btn)
    /\ ui_pc' = "loop"
    /\ UNCHANGED <<chat_session, captured_frames, frame_count, frame_sender_job_id,
                   frame_count_label, messagebox, pending, nSessions, nDirect>>
    /\ HandlerKeeps

\* ------------------------------------------------------- the timer tick
\* send_frame_task, run by the Tk loop when an armed job falls due; at most
\* `limit` ticks dispatch a unit.
send_frame_task_upto(limit) ==
    \E j \in pending :
        /\ ui_pc = "loop"
        /\ state = "RECORDING" => nDispatched < limit
        /\ messagebox' = "none"
        /\ IF state # "RECORDING"
           THEN /\ pending' = pending \ {j}
                /\ UNCHANGED <<frame_sender_job_id, workers, nDispatched>>
           ELSE \* threading.Thread(target=self._send_frame_worker).start()
                /\ nDispatched' = nDispatched + 1
                /\ workers' = Put(workers, nDispatched + 1,
                                  [pc |-> "check", sess |-> None, tmp |-> 0])
                /\ frame_sender_job_id' =
                     schedule_next_frame_job(state, pending \ {j}, frame_sender_job_id)
                /\ pending' =
                     schedule_next_frame_pending(state, pending \ {j}, frame_sender_job_id)
        /\ UNCHANGED <<state, chat_session, captured_frames, frame_count, btn,
                       status_label, frame_count_label, analysis_text,
                       coords_status_label, markers, map_view, uiQueue, analysts,
                       nSessions, nStops, finalized, hist, nDirect, ui_pc>>

send_frame_task == send_frame_task_upto(MaxTicks)

\* ------------------------------------------- the capture-and-send thread
\* A callback posted with root.after(0, ...).
Callback(cb, a, line, append, data) ==
    [cb |-> cb, a |-> a, line |-> line, append |-> append, data |-> data]

NoData == [list |-> FALSE, items |-> <<>>]

Call(cb) == Callback(cb, 0, Line(""), FALSE, NoData)

\* _send_frame_worker, line 309: the unit goes on only while RECORDING with
\* a session.
WorkerProceeds(st, sess) == ~(st # "RECORDING" \/ sess = None)

W_check(w) ==
    /\ workers[w].pc = "check"
    /\ IF WorkerProceeds(state, chat_session)
       THEN workers' = [workers EXCEPT ![w].pc = "capture"]
       ELSE workers' = Drop(workers, w)
    /\ UNCHANGED <<ctl, view, pending, uiQueue, analysts, cnt, hist, nDirect, ui_pc>>

\* Lines 313-321: capture_screen_to_image returns an image or None; with an
\* image, self.chat_session.send_message is called on the session that is
\* current then (an AttributeError on None is caught at line 330).
W_capture(w) ==
    /\ workers[w].pc = "capture"
    /\ \E img_ok \in BOOLEAN :
          IF img_ok /\ chat_session # None
          THEN workers' = [workers EXCEPT ![w].pc = "sending", ![w].sess = chat_session]
          ELSE workers' = Drop(workers, w)
    /\ UNCHANGED <<ctl, view, pending, uiQueue, analysts, cnt, hist, nDirect, ui_pc>>

\* Mutants of FramesAfterSend: the image is appended before the send is known
\* to have succeeded; the image is appended only if the state is still
\* RECORDING when the send returns.
FramesAfterSend_early(st, frames, img, ok) == Append(frames, img)

FramesAfterSend_rechecked(st, frames, img, ok) ==
    IF ok /\ st = "RECORDING" THEN Append(frames, img) ELSE frames

\* Lines 321-331: the frame list after send_message returned (ok) or raised;
\* the state is not read again.
FramesAfterSend(st, frames, img, ok) == IF ok THEN Append(frames, img) ELSE frames

\* Lines 321-325: send_message raises (caught at line 330), or it returns
\* and self.captured_frames.append(img) adds the image to the list that is
\* current then.
W_append(w) ==
    /\ workers[w].pc = "sending"
    /\ \E ok \in BOOLEAN :
          /\ captured_frames' = FramesAfterSend(state, captured_frames, w, ok)
          /\ IF ok
             THEN workers' = [workers EXCEPT ![w].pc = "incr_load"]
             ELSE workers' = Drop(workers, w)
    /\ UNCHANGED <<state, chat_session, frame_count, frame_sender_job_id, view,
                   pending, uiQueue, analysts, cnt, hist, nDirect, ui_pc>>

\* Line 326: self.frame_count += 1 is a load and a store; other threads run
\* between the two.
W_incr_load(w) ==
    /\ workers[w].pc = "incr_load"
    /\ workers' = [workers EXCEPT ![w].pc = "incr_store", ![w].tmp = frame_count]
    /\ UNCHANGED <<ctl, view, pending, uiQueue, analysts, cnt, hist, nDirect, ui_pc>>

\* The value stored by line 326.
Incremented(loaded) == loaded + 1

\* Line 326: the store.
W_incr_store(w) ==
    /\ workers[w].pc = "incr_store"
    /\ frame_count' = Incremented(workers[w].tmp)
    /\ workers' = [workers EXCEPT ![w].pc = "post", ![w].tmp = 0]
    /\ UNCHANGED <<state, chat_session, captured_frames, frame_sender_job_id, view,
                   pending, uiQueue, analysts, cnt, hist, nDirect, ui_pc>>

\* Line 328: self.root.after(0, self.update_frame_count), a call the thread
\* makes through the Tk loop, which runs other handlers before it; the posted
\* callback reads the counter when it runs.
W_post(w) ==
    /\ workers[w].pc = "post"
    /\ uiQueue' = Append(uiQueue, Call("update_frame_count"))
    /\ workers' = Drop(workers, w)
    /\ UNCHANGED <<ctl, view, pending, analysts, cnt, hist, nDirect, ui_pc>>

_send_frame_worker ==
    \E w \in DOMAIN workers :
        \/ W_check(w)
        \/ W_capture(w)
        \/ W_append(w)
        \/ W_incr_load(w)
        \/ W_incr_store(w)
        \/ W_post(w)

\* ------------------------------------------------------ the final reply
\* A reply is a sequence of tokens: a word of text, a blank, one of the two
\* markers, or a JSON document.
Blank == " "

\* str.find: the 0-based index of the first occurrence, or -1.
Find(s, tok) ==
    IF \E i \in 1..Len(s) : s[i] = tok
    THEN (CHOOSE i \in 1..Len(s) :
              s[i] = tok /\ \A k \in 1..(i - 1) : s[k] # tok) - 1
    ELSE -1

\* s[a:b] for 0 <= a, 0 <= b.
Slice(s, a, b) == SubSeq(s, a + 1, IF b > Len(s) THEN Len(s) ELSE b)

RECURSIVE LStrip(_)
LStrip(s) == IF s # <<>> /\ Head(s) = Blank THEN LStrip(Tail(s)) ELSE s

RECURSIVE RStrip(_)
RStrip(s) ==
    IF s # <<>> /\ s[Len(s)] = Blank THEN RStrip(SubSeq(s, 1, Len(s) - 1)) ELSE s

\* str.strip
Strip(s) == RStrip(LStrip(s))

\* One record of the coordinate list: whether float() accepts its latitude
\* and its longitude, and their values.
Item(lat_ok, lon_ok, lat, lon) ==
    [lat_ok |-> lat_ok, lon_ok |-> lon_ok, lat |-> lat, lon |-> lon, over |-> FALSE]

\* A record whose latitude is a JSON integer too large for a float: float()
\* raises OverflowError on it.
HugeItem == [lat_ok |-> FALSE, lon_ok |-> TRUE, lat |-> 0, lon |-> 2, over |-> TRUE]

\* The JSON documents of the model and what json.loads makes of each.
JsonDocs == {"[A,B]", "[A,bad]", "[bad,bad]", "[A,badlon,B]", "[A,huge,B]", "[]", "{}"}

JsonValue(doc) ==
    CASE doc = "[A,B]"   -> [list |-> TRUE,
                             items |-> <<Item(TRUE, TRUE, 48, 2), Item(TRUE, TRUE, 51, 0)>>]
      [] doc = "[A,bad]" -> [list |-> TRUE,
                             items |-> <<Item(FALSE, TRUE, 0, 2), Item(TRUE, TRUE, 51, 0)>>]
      [] doc = "[bad,bad]" -> [list |-> TRUE,
                               items |-> <<Item(FALSE, TRUE, 0, 2), Item(FALSE, FALSE, 0, 0)>>]
      [] doc = "[A,badlon,B]" ->
             [list |-> TRUE,
              items |-> <<Item(TRUE, TRUE, 48, 2), Item(TRUE, FALSE, 40, 0),
                          Item(TRUE, TRUE, 51, 0)>>]
      [] doc = "[A,huge,B]" ->
             [list |-> TRUE,
              items |-> <<Item(TRUE, TRUE, 48, 2), HugeItem, Item(TRUE, TRUE, 51, 0)>>]
      [] doc = "[]"      -> [list |-> TRUE, items |-> <<>>]
      [] OTHER           -> [list |-> FALSE, items |-> <<>>]

\* json.loads accepts a block that is exactly one JSON document.
JsonDecodes(block) == Len(block) = 1 /\ block[1] \in JsonDocs

\* A list cut short after its first record: '[{"latitude": 48, "longitude": 2},'.
JsonTruncated == "[A,"

\* A document json.loads gives up on with an exception that is not
\* json.JSONDecodeError: a list holding an integer of more than 4300 digits
\* (ValueError).  A nesting deeper than the recursion limit (RecursionError)
\* behaves alike.
JsonRefused == "[9..9]"

\* Line 407: json.loads raises past the except clause of line 447, which
\* names json.JSONDecodeError only.  The scanner reaches the refused document
\* when nothing but the opening of a list and whitespace precede it.
JsonLoadsRaises(block) ==
    \E k \in 1..Len(block) :
        /\ block[k] = JsonRefused
        /\ \A m \in 1..(k - 1) : block[m] \in {JsonTruncated, Blank}

\* Mutant of MarkersFound: the order of the two markers is not tested.
MarkersFound_unordered(full_text) ==
    Find(full_text, JSON_START) # -1 /\ Find(full_text, JSON_END) # -1

\* Lines 398-401: the markers are both present and in order.
MarkersFound(full_text) ==
    LET start_index == Find(full_text, JSON_START)
        end_index   == Find(full_text, JSON_END)
    IN  start_index # -1 /\ end_index # -1 /\ start_index < end_index

\* Mutant of AnalysisPart: the text is not cut at the start marker.
AnalysisPart_whole(full_text) == full_text

\* Lines 392 and 402: the text for the Analysis tab.
AnalysisPart(full_text) ==
    IF MarkersFound(full_text)
    THEN Strip(Slice(full_text, 0, Find(full_text, JSON_START)))
    ELSE full_text

\* Line 403: the block between the markers (each marker is one token long).
JsonString(full_text) ==
    Strip(Slice(full_text, Find(full_text, JSON_START) + 1, Find(full_text, JSON_END)))

\* Line 407 raises an exception that only line 467 catches.
ParseRaises(full_text) ==
    MarkersFound(full_text) /\ JsonLoadsRaises(JsonString(full_text))

\* Lines 398-462: the callbacks the worker posts for a reply, in order; none
\* when json.loads raises past line 447.
ParseCallbacks(full_text) ==
  IF ParseRaises(full_text) THEN <<>> ELSE
    ( IF MarkersFound(full_text)
      THEN IF JsonDecodes(JsonString(full_text))
           THEN <<Callback("plot_markers_on_map", 0, Line(""), FALSE,
                           JsonValue(JsonString(full_text)[1]))>>
           ELSE <<Callback("update_results_coords", 0,
                           Msg("Error parsing JSON block", 0, JsonString(full_text)),
                           FALSE, NoData)>>
      ELSE <<Callback("update_results_coords", 0,
                      Line("Warning: JSON markers not found."), FALSE, NoData)>> )
    \o <<Callback("update_results_analysis", 0,
                  Msg("analysis", 0, AnalysisPart(full_text)), FALSE, NoData)>>

\* The replies the session client may give.
Replies ==
    { <<"text", Blank, JSON_START, "[A,bad]", JSON_END>>,
      <<"text", JSON_START, "[]">> }

\* --------------------------------------------- the final-analysis thread
\* The thread goes on to post the callbacks `cbs` with root.after(0, ...), one
\* call at a time, and then to `then` ("end": it returns).
Posting(rec, cbs, then) == [rec EXCEPT !.pc = "post", !.todo = cbs, !.then = then]

\* Lines 364-366 and 369-371: an error on both tabs, then the completion.
ErrorCallbacks(a, text) ==
    << Callback("update_results_analysis", a, Line(text), FALSE, NoData),
       Callback("update_results_coords", a, Line(text), FALSE, NoData),
       Callback("_finalize_analysis_ui", a, Line(""), FALSE, NoData) >>

\* Lines 467-472: the except branch.  The second lambda reads `e` when it
\* runs.
ExceptCallbacks(a) ==
    << Callback("update_results_analysis", a, Line("--- ANALYSIS ERROR ---"), TRUE, NoData),
       Callback("coords_error_lambda", a, Line("Analysis Error"), FALSE, NoData) >>

\* Lines 473-475: the finally branch.
FinallyCallbacks(a) == << Callback("_finalize_analysis_ui", a, Line(""), FALSE, NoData) >>

\* The thread of final analysis a returns: how it ended, if a log is kept.
Ended(log, a, how) ==
    IF a \in DOMAIN log THEN [log EXCEPT ![a].outcome = how] ELSE log

\* Line 363.
A_check_session(a) ==
    /\ analysts[a].pc = "check_session"
    /\ IF chat_session = None
       THEN /\ analysts' = [analysts EXCEPT ![a] =
                   Posting(@, ErrorCallbacks(a, "Error: No active session to analyze."),
                           "end")]
            /\ stop_log' = Ended(stop_log, a, "no_session")
       ELSE /\ analysts' = [analysts EXCEPT ![a].pc = "check_frames"]
            /\ UNCHANGED stop_log
    /\ UNCHANGED <<ctl, view, pending, uiQueue, workers, cnt, final_response, nDirect, ui_pc>>

\* Mutant of NoFrames: the precondition of line 368 left out.
NoFrames_unchecked(frames) == FALSE

\* Line 368: the precondition on the frame sequence.
NoFrames(frames) == frames = <<>>

\* Lines 375-378: the status updates posted before the turn is built.
StatusCallbacks(a) ==
    << Callback("sending_status", a, Line(""), TRUE, NoData),
       Callback("update_results_coords", a, Line("Waiting for analysis..."),
                FALSE, NoData),
       Callback("delete_all_marker", a, Line(""), FALSE, NoData) >>

\* Line 368.
A_check_frames(a) ==
    /\ analysts[a].pc = "check_frames"
    /\ IF NoFrames(captured_frames)
       THEN /\ analysts' = [analysts EXCEPT ![a] =
                   Posting(@, ErrorCallbacks(a,
                       "Error: No frames were captured during the session."), "end")]
            /\ stop_log' = Ended(stop_log, a, "no_frames")
       ELSE /\ analysts' = [analysts EXCEPT ![a] = Posting(@, StatusCallbacks(a), "intro")]
            /\ UNCHANGED stop_log
    /\ UNCHANGED <<ctl, view, pending, uiQueue, workers, cnt, final_response, nDirect, ui_pc>>

\* One self.root.after(0, ...) of lines 364-366, 369-371, 375-378, 445-462
\* and 471-475: the thread makes the call through the Tk loop, which may run
\* the callbacks posted before it in between two such calls.
A_post(a) ==
    /\ analysts[a].pc = "post"
    /\ uiQueue' = Append(uiQueue, Head(analysts[a].todo))
    /\ analysts' =
          IF Len(analysts[a].todo) > 1
          THEN [analysts EXCEPT ![a].todo = Tail(@)]
          ELSE IF analysts[a].then = "end"
               THEN Drop(analysts, a)
               ELSE [analysts EXCEPT ![a].pc = analysts[a].then,
                                     ![a].todo = <<>>, ![a].then = ""]
    /\ UNCHANGED <<ctl, view, pending, workers, cnt, hist, nDirect, ui_pc>>

\* Line 473: the except block of lines 467-472 ends and Python unbinds `e`;
\* the finally branch follows.
A_leave_except(a) ==
    /\ analysts[a].pc = "leave_except"
    /\ analysts' = [analysts EXCEPT ![a] = Posting(@, FinallyCallbacks(a), "end")]
    /\ UNCHANGED <<ctl, view, pending, uiQueue, workers, cnt, hist, nDirect, ui_pc>>

\* Line 382: the frame count named in the introductory text.
A_intro(a) ==
    /\ analysts[a].pc = "intro"
    /\ analysts' = [analysts EXCEPT ![a].pc = "extend", ![a].n = Len(captured_frames)]
    /\ UNCHANGED <<ctl, view, pending, uiQueue, workers, cnt, hist, nDirect, ui_pc>>

\* Mutant of MessageFrames: the turn is built without the first frame.
MessageFrames_tail(frames) == IF frames = <<>> THEN frames ELSE Tail(frames)

\* Line 384: the frames put into the combined turn.
MessageFrames(frames) == frames

\* Line 384: message_parts.extend(self.captured_frames).
A_extend(a) ==
    /\ analysts[a].pc = "extend"
    /\ analysts' = [analysts EXCEPT ![a].pc = "send",
                                     ![a].parts = MessageFrames(captured_frames)]
    /\ UNCHANGED <<ctl, view, pending, uiQueue, workers, cnt, hist, nDirect, ui_pc>>

\* Line 387: self.chat_session.send_message(message_parts) is called on the
\* session that is current then; on None the AttributeError is caught.
A_send(a) ==
    /\ analysts[a].pc = "send"
    /\ IF chat_session = None
       THEN /\ analysts' = [analysts EXCEPT ![a] =
                   Posting(@, ExceptCallbacks(a), "leave_except")]
            /\ stop_log' = Ended(stop_log, a, "raised")
       ELSE /\ analysts' = [analysts EXCEPT ![a].pc = "sending", ![a].sess = chat_session]
            /\ UNCHANGED stop_log
    /\ UNCHANGED <<ctl, view, pending, uiQueue, workers, cnt, final_response, nDirect, ui_pc>>

\* Lines 387-467: the call raises, or returns one of `texts`, which is
\* parsed; when json.loads raises past line 447 the thread is in the except
\* branch of line 467 with the reply held.  The callbacks are then posted one
\* by one.
A_receive(a, texts) ==
    /\ analysts[a].pc = "sending"
    /\ \/ /\ analysts' = [analysts EXCEPT ![a] =
                 Posting(@, ExceptCallbacks(a), "leave_except")]
          /\ stop_log' = Ended(stop_log, a, "raised")
          /\ UNCHANGED final_response
       \/ \E full_text \in texts :
             /\ analysts' = [analysts EXCEPT ![a] =
                    IF ParseRaises(full_text)
                    THEN Posting(@, ExceptCallbacks(a), "leave_except")
                    ELSE Posting(@, ParseCallbacks(full_text) \o FinallyCallbacks(a),
                                 "end")]
             /\ stop_log' = Ended(stop_log, a,
                                  IF ParseRaises(full_text) THEN "raised" ELSE "replied")
             /\ final_response' = [got |-> TRUE, text |-> full_text]
    /\ UNCHANGED <<ctl, view, pending, uiQueue, workers, cnt, nDirect, ui_pc>>

A_reply(a) == A_receive(a, Replies)

AnalystStep(a) ==
    /\ a \in DOMAIN analysts
    /\ \/ A_check_session(a)
       \/ A_check_frames(a)
       \/ A_intro(a)
       \/ A_extend(a)
       \/ A_send(a)
       \/ A_reply(a)
       \/ A_post(a)
       \/ A_leave_except(a)

_final_analysis_worker == \E a \in 1..MaxStops : AnalystStep(a)

\* ------------------------------------------- callbacks on the Tk loop
\* plot_markers_on_map, lines 418-433: a marker for every record whose
\* latitude and longitude float() accepts, labelled with its 1-based rank; a
\* record float() rejects with ValueError or TypeError is skipped (line 432);
\* an OverflowError is not caught there and ends the loop.
RECURSIVE PlotFrom(_, _)
PlotFrom(items, i) ==
    IF i > Len(items) \/ items[i].over THEN <<>>
    ELSE IF items[i].lat_ok /\ items[i].lon_ok
         THEN <<[lat |-> items[i].lat, lon |-> items[i].lon, text |-> i]>>
                  \o PlotFrom(items, i + 1)
         ELSE PlotFrom(items, i + 1)

PlottedMarkers(data) ==
    IF data.list /\ data.items # <<>> THEN PlotFrom(data.items, 1) ELSE <<>>

\* Lines 419-433: the loop raises out of the callback; lines 434-441 do not
\* run.
PlotAborts(data) == data.list /\ \E i \in 1..Len(data.items) : data.items[i].over

\* Lines 427-431: the view moves to the first marker plotted.
PlottedView(data, old) ==
    IF PlottedMarkers(data) # <<>>
    THEN [lat |-> PlottedMarkers(data)[1].lat, lon |-> PlottedMarkers(data)[1].lon,
          zoom |-> 10]
    ELSE old

\* Lines 434-441: the report under the map.
PlottedStatus(data) ==
    IF data.list /\ data.items # <<>>
    THEN IF Len(PlottedMarkers(data)) > 0
         THEN Msg("Plotted potential locations (ranked).", Len(PlottedMarkers(data)), <<>>)
         ELSE Line("Parsed JSON, but no valid coordinates to plot.")
    ELSE Line("Parsed JSON coordinate data is empty or not a list.")

\* No reply is held: before the final-analysis call returns, and once the
\* completion step of its analysis has run.
NoResponse == [got |-> FALSE, text |-> <<>>]

\* Mutant of FinalState: the completion step leaves the state ANALYZING.
FinalState_stuck == "ANALYZING"

\* _finalize_analysis_ui, line 479.
FinalState == "IDLE"

\* The Tk loop takes the oldest posted callback off its queue.
Takes(cb) ==
    /\ uiQueue # <<>>
    /\ Head(uiQueue).cb = cb
    /\ ui_pc = "loop"
    /\ uiQueue' = Tail(uiQueue)
    /\ messagebox' = "none"
    /\ UNCHANGED <<pending, workers, analysts, nDispatched, nSessions, nStops, nDirect, ui_pc>>

\* update_frame_count, lines 189-191.
update_frame_count ==
    /\ Takes("update_frame_count")
    /\ frame_count_label' = frame_count
    /\ UNCHANGED <<ctl, btn, status_label, analysis_text, coords_status_label,
                   markers, map_view, finalized, hist>>

\* update_results(..., target_tab='analysis'), lines 195-204.
update_results_on_analysis ==
    /\ Takes("update_results_analysis")
    /\ analysis_text' = update_results_analysis(analysis_text, Head(uiQueue).line,
                                                Head(uiQueue).append)
    /\ UNCHANGED <<ctl, btn, status_label, frame_count_label, coords_status_label,
                   markers, map_view, finalized, hist>>

\* The lambda of line 375: it reads len(self.captured_frames) when it runs.
sending_status ==
    /\ Takes("sending_status")
    /\ analysis_text' = update_results_analysis(analysis_text,
           Msg("Sending captured frames", Len(captured_frames), <<>>), TRUE)
    /\ UNCHANGED <<ctl, btn, status_label, frame_count_label, coords_status_label,
                   markers, map_view, finalized, hist>>

\* update_results(..., target_tab='coords'), lines 205-209.
update_results_on_coords ==
    /\ Takes("update_results_coords")
    /\ coords_status_label' = Head(uiQueue).line
    /\ UNCHANGED <<ctl, btn, status_label, frame_count_label, analysis_text,
                   markers, map_view, finalized, hist>>

\* self.map_widget.delete_all_marker, posted at line 378.
delete_all_marker ==
    /\ Takes("delete_all_marker")
    /\ markers' = <<>>
    /\ UNCHANGED <<ctl, btn, status_label, frame_count_label, analysis_text,
                   coords_status_label, map_view, finalized, hist>>

\* plot_markers_on_map, lines 411-441.
plot_markers_on_map ==
    /\ Takes("plot_markers_on_map")
    /\ markers' = PlottedMarkers(Head(uiQueue).data)
    /\ map_view' = PlottedView(Head(uiQueue).data, map_view)
    /\ coords_status_label' = IF PlotAborts(Head(uiQueue).data)
                              THEN coords_status_label
                              ELSE PlottedStatus(Head(uiQueue).data)
    /\ UNCHANGED <<ctl, btn, status_label, frame_count_label, analysis_text, finalized, hist>>

\* `e` of line 467 is still bound: the thread of analysis a has not left its
\* except block.
EBound(a) == a \in DOMAIN analysts /\ analysts[a].pc = "leave_except"

\* The lambda of line 472 reads `e` when it runs.  While the thread is still
\* in its except block it shows the error; once the block has ended `e` is
\* unbound and the lambda raises NameError before it reaches update_results
\* (Tk reports the error and goes on).
coords_error_lambda ==
    /\ Takes("coords_error_lambda")
    /\ coords_status_label' = IF EBound(Head(uiQueue).a)
                              THEN Head(uiQueue).line
                              ELSE coords_status_label
    /\ UNCHANGED <<ctl, btn, status_label, frame_count_label, analysis_text,
                   markers, map_view, finalized, hist>>

\* _finalize_analysis_ui, lines 477-482.
_finalize_analysis_ui ==
    /\ Takes("_finalize_analysis_ui")
    /\ state' = FinalState
    /\ status_label' = update_status(state', status_label)
    /\ btn' = update_button_states(state', chat_session,
                 [btn EXCEPT !.stop_text = "Stop & Analyze"])
    /\ finalized' = [finalized EXCEPT ![Head(uiQueue).a] = @ + 1]
    \* the log of this analysis ends with its completion
    /\ stop_log' = Drop(stop_log, Head(uiQueue).a)
    /\ final_response' = NoResponse
    /\ UNCHANGED <<chat_session, captured_frames, frame_count, frame_sender_job_id,
                   frame_count_label, analysis_text, coords_status_label, markers,
                   map_view>>

\* The Tk loop runs the oldest posted callback.
RunCallback ==
    \/ update_frame_count
    \/ update_results_on_analysis
    \/ sending_status
    \/ update_results_on_coords
    \/ delete_all_marker
    \/ plot_markers_on_map
    \/ coords_error_lambda
    \/ _finalize_analysis_ui

\* start_session returns: the step that ends the call.
start_session_returns == (start_session \/ start_session_263) /\ ui_pc' = "loop"

\* clear_history returns: the step that ends the call.
clear_history_returns == (clear_history \/ clear_history_501) /\ ui_pc' = "loop"

\* The UI thread is inside start_session's new-session branch and goes on.
start_session_runs ==
    start_session_255 \/ start_session_256 \/ start_session_257 \/ start_session_263

\* The UI thread is inside clear_history and goes on.
clear_history_runs ==
    clear_history_498 \/ clear_history_499 \/ clear_history_500 \/ clear_history_501

\* ------------------------------------------------------ specification
\* A press of an enabled button runs its command.
PressStart == btn.start /\ start_session /\ UNCHANGED nDirect
PressPause == btn.pause /\ toggle_pause_resume /\ UNCHANGED nDirect
PressStop  == btn.stop /\ stop_and_analyze /\ UNCHANGED <<nDirect, stop_log>>
PressClear == btn.clear /\ clear_history /\ UNCHANGED nDirect

\* The entry point is called although its button is disabled.
CallStart == ~btn.start /\ nDirect < MaxDirect /\ start_session /\ nDirect' = nDirect + 1
CallPause == ~btn.pause /\ nDirect < MaxDirect /\ toggle_pause_resume /\ nDirect' = nDirect + 1
CallStop  ==
    /\ ~btn.stop /\ nDirect < MaxDirect /\ stop_and_analyze /\ nDirect' = nDirect + 1
    /\ UNCHANGED stop_log
CallClear == ~btn.clear /\ nDirect < MaxDirect /\ clear_history /\ nDirect' = nDirect + 1

Next ==
    \/ PressStart
    \/ PressPause
    \/ PressStop
    \/ PressClear
    \/ start_session_runs
    \/ clear_history_runs
    \/ send_frame_task
    \/ _send_frame_worker
    \/ _final_analysis_worker
    \/ RunCallback

NextApi ==
    \/ (nDirect = 0 \/ ui_pc # "loop") /\ Next
    \/ CallStart
    \/ CallPause
    \/ CallStop
    \/ CallClear

\* Next with a log kept of every final analysis: the frames held when its
\* stop was issued and how its thread ended.  The log is read by no action
\* of the program.
PressStopLogged ==
    /\ btn.stop /\ stop_and_analyze /\ UNCHANGED nDirect
    /\ stop_log' = IF StopAllowed(state)
                   THEN Put(stop_log, nStops + 1,
                            [at_stop |-> captured_frames, outcome |-> "running"])
                   ELSE stop_log

NextLogged ==
    \/ PressStart
    \/ PressPause
    \/ PressStopLogged
    \/ PressClear
    \/ start_session_runs
    \/ clear_history_runs
    \/ send_frame_task
    \/ _send_frame_worker
    \/ _final_analysis_worker
    \/ RunCallback

Spec == Init /\ [][Next]_vars

SpecLogged == Init /\ [][NextLogged]_vars

SpecApi == Init /\ [][NextApi]_vars

\* Next with start_session also called while its button is disabled, the
\* program running on after the call.
NextStartAnytime ==
    \/ Next
    \/ CallStart

SpecStartAnytime == Init /\ [][NextStartAnytime]_vars

\* One recording that is never paused or stopped: the start, the ticks, their
\* units and the label refreshes they post.
NextUnits ==
    \/ PressStart
    \/ start_session_runs
    \/ send_frame_task_upto(MaxUnits)
    \/ _send_frame_worker
    \/ update_frame_count

SpecUnits == Init /\ [][NextUnits]_vars

\* ------------------------------------------------ the parser on its own
\* The tokens a final reply is made of: text, blanks, the two markers, the
\* JSON documents, a truncated one and one json.loads gives up on.
ParseTokens ==
    {"text", Blank, JSON_START, JSON_END, JsonTruncated, JsonRefused} \cup JsonDocs

\* Every reply of at most MaxReplyLen tokens.
ParseReplies == UNION { [1..n -> ParseTokens] : n \in 0..MaxReplyLen }

\* The final-analysis call of line 387 is under way: a session with one frame
\* was stopped, the thread has posted its status updates (lines 375-378) and
\* waits for the reply.  With prior = 1 this is the session's second
\* analysis, the first having plotted a marker.
ParseInit ==
    \E prior \in {0, 1} :
        /\ state = "ANALYZING"
        /\ chat_session = 1
        /\ captured_frames = <<1>>
        /\ frame_count = 1
        /\ frame_sender_job_id = None
        /\ btn = [start |-> FALSE, pause |-> FALSE, pause_text |-> "Pause",
                  stop |-> FALSE, stop_text |-> "Analyzing...", clear |-> FALSE]
        /\ status_label = "ANALYZING"
        /\ frame_count_label = 1
        /\ analysis_text = <<Line(IF prior = 0 THEN "Starting new session..."
                                               ELSE "Resuming session...")>>
        /\ coords_status_label =
              IF prior = 0 THEN Line("Coordinates will be plotted here after analysis.")
              ELSE PlottedStatus(JsonValue("[A,bad]"))
        /\ markers = IF prior = 0 THEN <<>> ELSE PlottedMarkers(JsonValue("[A,bad]"))
        /\ map_view = PlottedView(IF prior = 0 THEN NoData ELSE JsonValue("[A,bad]"),
                                  [lat |-> 0, lon |-> 0, zoom |-> 1])
        /\ messagebox = "none"
        /\ pending = {}
        /\ uiQueue = StatusCallbacks(prior + 1)
        /\ workers = <<>>
        /\ analysts = [a \in {prior + 1} |->
                         [pc |-> "sending", n |-> 1, parts |-> <<1>>, sess |-> 1,
                          todo |-> <<>>, then |-> ""]]
        /\ nDispatched = 1
        /\ nSessions = 1
        /\ nStops = prior + 1
        /\ finalized = [a \in 1..(prior + 1) |-> IF a <= prior THEN 1 ELSE 0]
        /\ stop_log = <<>>
        /\ final_response = NoResponse
        /\ nDirect = 0
        /\ ui_pc = "loop"

\* The call returns any reply, or raises.
ParseReceive == \E a \in DOMAIN analysts : A_receive(a, ParseReplies)

\* The thread posts its callbacks and leaves its except block.
ParsePost == \E a \in DOMAIN analysts : A_post(a) \/ A_leave_except(a)

ParseNext ==
    \/ ParseReceive
    \/ ParsePost
    \/ sending_status
    \/ update_results_on_coords
    \/ delete_all_marker
    \/ plot_markers_on_map
    \/ update_results_on_analysis
    \/ coords_error_lambda
    \/ _finalize_analysis_ui

ParseSpec == ParseInit /\ [][ParseNext]_vars

\* The threads are scheduled, the session client's call returns or raises,
\* and the Tk loop keeps running the callbacks posted to it.
LiveSpec ==
    /\ Spec
    /\ \A a \in 1..MaxStops : WF_vars(AnalystStep(a))
    /\ WF_vars(RunCallback)
    /\ WF_vars(start_session_runs)
    /\ WF_vars(clear_history_runs)

\* ---------------------------------------------------------------- claims
\* s is a prefix of t.
IsPrefix(s, t) == Len(s) <= Len(t) /\ SubSeq(t, 1, Len(s)) = s

\* A capture-and-send unit is between its append (line 325) and the end of
\* its increment (line 326).
MidUpdate == \E w \in DOMAIN workers : workers[w].pc \in {"incr_load", "incr_store"}

\* C1: a command issued in a state where the transition table allows it moves
\* the controller to the state the table names (start: IDLE to RECORDING;
\* pause: RECORDING to PAUSED; resume: PAUSED to RECORDING; stop: RECORDING or
\* PAUSED to ANALYZING; completion: ANALYZING to IDLE; clear: IDLE to IDLE),
\* and the state is always one of the four.
C1_TransitionTable ==
    [][ /\ (start_session_returns /\ state = "IDLE") => state' = "RECORDING"
        /\ (toggle_pause_resume /\ state = "RECORDING") => state' = "PAUSED"
        /\ (toggle_pause_resume /\ state = "PAUSED") => state' = "RECORDING"
        /\ (stop_and_analyze /\ state \in {"RECORDING", "PAUSED"}) => state' = "ANALYZING"
        /\ (_finalize_analysis_ui /\ state = "ANALYZING") => state' = "IDLE"
        /\ (clear_history /\ state = "IDLE") => state' = "IDLE"
        /\ (clear_history_returns /\ state = "IDLE") => state' = "IDLE"
        /\ state \in States /\ state' \in States ]_vars

\* C1 witness: a session was started, stopped, its analysis completed and the
\* history was cleared.
C1_Witness ==
    /\ state = "IDLE" /\ chat_session = None /\ nSessions >= 1 /\ nDirect = 0
    /\ 1 \in DOMAIN finalized /\ finalized[1] = 1

\* C2: whenever no capture-and-send unit is between its append and its
\* increment, the frame counter equals the length of the frame sequence.
C2_CounterEqualsLength == ~MidUpdate => frame_count = Len(captured_frames)

\* C3: a session handle exists whenever the state is RECORDING, PAUSED or
\* ANALYZING; the handle is absent only in IDLE, it is absent at first, only a
\* clear removes it and every start leaves one in place.
C3_HandleIffSession ==
    /\ [](state \in {"RECORDING", "PAUSED", "ANALYZING"} => chat_session # None)
    /\ [][ /\ (chat_session # None /\ chat_session' = None) => clear_history
           /\ start_session => chat_session' # None ]_vars

\* C4: clear issued while RECORDING or PAUSED shows a warning and leaves the
\* state, the handle, the frames, the counter and the armed timer unchanged.
C4_ClearRejected ==
    [][ (clear_history /\ state \in {"RECORDING", "PAUSED"}) =>
            /\ messagebox' = "showwarning"
            /\ UNCHANGED <<state, chat_session, captured_frames, frame_count,
                           frame_sender_job_id, pending>> ]_vars

\* C4 witness: the warning is up while RECORDING with frames and an armed timer.
C4_Witness ==
    /\ messagebox = "showwarning" /\ state = "RECORDING"
    /\ captured_frames # <<>> /\ pending # {} /\ nDirect = 1

\* C5: start, pause/resume, stop and clear issued during ANALYZING leave the
\* state, the handle, the frames and the counter unchanged, and only the
\* completion of the final analysis leaves ANALYZING.
C5_NoCommandWhileAnalyzing ==
    [][ state = "ANALYZING" =>
            /\ (start_session \/ toggle_pause_resume \/ stop_and_analyze \/ clear_history)
                  => UNCHANGED <<state, chat_session, captured_frames, frame_count>>
            /\ state' # "ANALYZING" => _finalize_analysis_ui ]_vars

\* C6: start issued while RECORDING or PAUSED leaves the state unchanged and
\* arms no additional timer tick.
C6_StartOnlyFromIdle ==
    [][ (start_session /\ state \in {"RECORDING", "PAUSED"}) =>
            UNCHANGED <<state, pending>> ]_vars

\* C7: when a clear issued while IDLE returns, the handle is destroyed, the
\* frame sequence is empty, the counter is 0 and the state is IDLE.
C7_ClearFromIdle ==
    [][ (clear_history_returns /\ state = "IDLE") =>
            /\ chat_session' = None
            /\ captured_frames' = <<>>
            /\ frame_count' = 0
            /\ state' = "IDLE" ]_vars

\* C8: a start from IDLE without a handle creates a handle never used before
\* and, when it returns, the frames are empty and the counter is 0; a start
\* from IDLE with a handle keeps that handle, the frames and the counter; and
\* a unit that appends afterwards extends the frames already held.
C8_StartCreatesOrReuses ==
    [][ /\ (start_session /\ state = "IDLE" /\ chat_session = None) =>
              /\ chat_session' # None /\ chat_session' > nSessions
        /\ (start_session_263 /\ state = "IDLE") =>
              /\ chat_session' # None
              /\ captured_frames' = <<>> /\ frame_count' = 0
        /\ (start_session /\ state = "IDLE" /\ chat_session # None) =>
              UNCHANGED <<chat_session, captured_frames, frame_count>>
        /\ _send_frame_worker => IsPrefix(captured_frames, captured_frames') ]_vars

\* C9: every final analysis started by a stop is completed, and completed once:
\* its completion step runs exactly once and the state returns to IDLE.
C9_StopReturnsToIdle ==
    /\ \A a \in 1..MaxStops :
          /\ (a \in DOMAIN finalized) ~> (a \in DOMAIN finalized /\ finalized[a] = 1)
          /\ [](a \in DOMAIN finalized => finalized[a] <= 1)
    /\ (state = "ANALYZING") ~> (state = "IDLE")

\* C9 witness: an analysis whose send was attempted has completed.
C9_Witness ==
    /\ 1 \in DOMAIN finalized /\ finalized[1] = 1 /\ state = "IDLE"
    /\ analysis_text # <<>> /\ analysis_text[Len(analysis_text)].k = "--- ANALYSIS ERROR ---"

\* C10: no step other than a clear, or a start without a handle, removes the
\* handle, removes a frame or lowers the counter.
C10_Retained ==
    [][ ~(\/ clear_history \/ clear_history_runs
          \/ (start_session /\ chat_session = None) \/ start_session_runs) =>
            /\ chat_session # None => chat_session' = chat_session
            /\ IsPrefix(captured_frames, captured_frames')
            /\ frame_count' >= frame_count ]_vars

\* C11 as stated: a final analysis whose stop was issued with an empty frame
\* sequence never invokes the session client (its thread never reaches the
\* call of line 387, and ends as "no frames") and, when its completion step
\* runs, both channels show the "no frames captured" error and the state
\* goes from ANALYZING to IDLE.
C11_EmptyAtStop ==
    /\ [](\A a \in DOMAIN stop_log :
             stop_log[a].at_stop = <<>> =>
                 /\ a \in DOMAIN analysts => analysts[a].pc # "sending"
                 /\ stop_log[a].outcome \in {"running", "no_frames"})
    /\ [][ (/\ _finalize_analysis_ui
            /\ Head(uiQueue).a \in DOMAIN stop_log
            /\ stop_log[Head(uiQueue).a].at_stop = <<>>) =>
               /\ analysis_text =
                     <<Line("Error: No frames were captured during the session.")>>
               /\ coords_status_label =
                     Line("Error: No frames were captured during the session.")
               /\ state = "ANALYZING" /\ state' = "IDLE" ]_vars

\* C11 amended: a final analysis whose thread finds the frame sequence empty
\* (the sequence was empty at the stop and no unit in flight has appended
\* since) ends there without invoking the session client, and when its
\* completion step runs both channels show the "no frames captured" error and
\* the state goes from ANALYZING to IDLE.
C11_EmptyAtCheck ==
    /\ [][ \A a \in DOMAIN analysts :
              (A_check_frames(a) /\ captured_frames = <<>>) =>
                  /\ analysts'[a].pc = "post" /\ analysts'[a].then = "end"
                  /\ a \in DOMAIN stop_log' /\ stop_log'[a].outcome = "no_frames" ]_vars
    /\ [](\A a \in DOMAIN stop_log :
             stop_log[a].outcome = "no_frames" =>
                 /\ a \in DOMAIN analysts =>
                        (analysts[a].pc = "post" /\ analysts[a].then = "end")
                 /\ stop_log[a].at_stop = <<>>)
    /\ [][ (/\ _finalize_analysis_ui
            /\ Head(uiQueue).a \in DOMAIN stop_log
            /\ stop_log[Head(uiQueue).a].outcome = "no_frames") =>
               /\ analysis_text =
                     <<Line("Error: No frames were captured during the session.")>>
               /\ coords_status_label =
                     Line("Error: No frames were captured during the session.")
               /\ state = "ANALYZING" /\ state' = "IDLE" ]_vars

\* C11 witness: both channels show the error of an analysis stopped without
\* frames, and its completion step is next.
C11_Witness ==
    /\ uiQueue # <<>> /\ Head(uiQueue).cb = "_finalize_analysis_ui"
    /\ 1 \in DOMAIN stop_log /\ stop_log[1].outcome = "no_frames"
    /\ analysis_text = <<Line("Error: No frames were captured during the session.")>>
    /\ coords_status_label = Line("Error: No frames were captured during the session.")
    /\ state = "ANALYZING"

\* C12: a frame is appended, and the counter incremented, only by the unit
\* whose send has returned: a unit that ends at its state check, at a failed
\* capture or at a send that raises leaves the frame sequence, the counter and
\* the state unchanged and starts nothing in its place (no unit, no tick, no
\* callback); no image is in the sequence while its unit has not sent it, and
\* no image is in the sequence twice.
C12_OnlyAfterSuccess ==
    /\ [][ /\ \A w \in DOMAIN workers :
                (w \notin DOMAIN workers' /\ workers[w].pc \in {"check", "capture", "sending"})
                    => /\ UNCHANGED <<captured_frames, frame_count, state, pending, uiQueue>>
                       /\ DOMAIN workers' = DOMAIN workers \ {w}
           /\ (_send_frame_worker /\ captured_frames' # captured_frames) =>
                \E w \in DOMAIN workers :
                    /\ workers[w].pc = "sending" /\ workers'[w].pc = "incr_load"
                    /\ captured_frames' = Append(captured_frames, w)
           /\ (_send_frame_worker /\ frame_count' # frame_count) =>
                \E w \in DOMAIN workers :
                    workers[w].pc = "incr_store" /\ workers'[w].pc = "post" ]_vars
    /\ [](/\ \A w \in DOMAIN workers :
                workers[w].pc \in {"check", "capture", "sending"} =>
                    \A i \in 1..Len(captured_frames) : captured_frames[i] # w
          /\ \A i, j \in 1..Len(captured_frames) :
               captured_frames[i] = captured_frames[j] => i = j)

\* C12 witness: of two units dispatched while RECORDING, the first has ended
\* without a frame and the second has appended its frame and counted it.
C12_Witness ==
    /\ state = "RECORDING" /\ nDispatched = 2 /\ workers = <<>>
    /\ captured_frames = <<2>> /\ frame_count = 1 /\ nStops = 0
    /\ btn.pause_text = "Pause"

\* C13: no step of a background thread (a capture-and-send unit or a final
\* analysis) changes the frame sequence, the frame counter or the state; only
\* handlers run by the Tk loop do.
C13_OnlyUiLoopWrites ==
    [][ (_send_frame_worker \/ _final_analysis_worker) =>
            UNCHANGED <<captured_frames, frame_count, state>> ]_vars

\* ------------------------------------------------ claims on the parser
\* The completion step of an analysis that got a reply is about to run, so
\* every callback posted for the reply has run (the Tk loop runs them in the
\* order posted).
ReplyShown ==
    /\ uiQueue # <<>> /\ Head(uiQueue).cb = "_finalize_analysis_ui"
    /\ final_response.got

\* t is p without its leading and trailing blanks.
IsTrimOf(t, p) ==
    \E a, b \in 0..Len(p) :
        /\ a + b <= Len(p)
        /\ t = SubSeq(p, a + 1, Len(p) - b)
        /\ \A m \in 1..a : p[m] = Blank
        /\ \A m \in (Len(p) - b + 1)..Len(p) : p[m] = Blank
        /\ t # <<>> => (t[1] # Blank /\ t[Len(t)] # Blank)

\* The first start marker of r is at i, the first end marker at j, i before j.
Delimited(r, i, j) ==
    /\ i \in 1..Len(r) /\ j \in 1..Len(r) /\ i < j
    /\ r[i] = JSON_START /\ \A m \in 1..(i - 1) : r[m] # JSON_START
    /\ r[j] = JSON_END /\ \A m \in 1..(j - 1) : r[m] # JSON_END

\* r has no start marker, or no end marker, or an end marker that no start
\* marker precedes.
NoBlock(r) ==
    \/ \A m \in 1..Len(r) : r[m] # JSON_START
    \/ \A m \in 1..Len(r) : r[m] # JSON_END
    \/ \E j \in 1..Len(r) : r[j] = JSON_END /\ \A m \in 1..j : r[m] # JSON_START

\* Between i and j, r holds the one document at k and blanks around it.
HoldsDoc(r, i, j, k) ==
    /\ i < k /\ k < j /\ r[k] \in JsonDocs
    /\ \A m \in (i + 1)..(j - 1) : m # k => r[m] = Blank

\* The document is a list whose records all have a numeric latitude and
\* longitude.
AllNumeric(doc) ==
    /\ JsonValue(doc).list
    /\ \A n \in 1..Len(JsonValue(doc).items) :
          JsonValue(doc).items[n].lat_ok /\ JsonValue(doc).items[n].lon_ok

\* C14: when the reply has no start marker, no end marker, or its first start
\* marker does not precede its first end marker, the Analysis tab shows the
\* whole reply unchanged, the coordinate channel shows the "markers not found"
\* warning and the map has no marker.
C14_NoBlockIsFreeText ==
    [][ (_finalize_analysis_ui /\ final_response.got /\ NoBlock(final_response.text)) =>
            /\ analysis_text = <<Msg("analysis", 0, final_response.text)>>
            /\ coords_status_label = Line("Warning: JSON markers not found.")
            /\ markers = <<>> ]_vars

\* C14 witness: a reply with the end marker before the start marker is shown
\* whole, and the marker of the session's earlier analysis is gone.
C14_Witness ==
    /\ ReplyShown /\ nStops = 2
    /\ final_response.text = <<"text", JSON_END, JSON_START, "[A,B]">>
    /\ analysis_text = <<Msg("analysis", 0, final_response.text)>>
    /\ coords_status_label = Line("Warning: JSON markers not found.")
    /\ markers = <<>>

\* C15 as stated: for a reply whose markers, in order, enclose a list of N
\* records that are all numeric, the map holds N markers, the m-th at the
\* m-th record's position and labelled m, and the Analysis tab shows exactly
\* the part of the reply before the start marker.
C15_TextBeforeStart ==
    [][ (_finalize_analysis_ui /\ final_response.got) =>
        \A i, j, k \in 1..Len(final_response.text) :
          (/\ Delimited(final_response.text, i, j)
           /\ HoldsDoc(final_response.text, i, j, k)
           /\ AllNumeric(final_response.text[k])) =>
              /\ markers = [m \in 1..Len(JsonValue(final_response.text[k]).items) |->
                              [lat |-> JsonValue(final_response.text[k]).items[m].lat,
                               lon |-> JsonValue(final_response.text[k]).items[m].lon,
                               text |-> m]]
              /\ analysis_text =
                    <<Msg("analysis", 0, SubSeq(final_response.text, 1, i - 1))>> ]_vars

\* C15 amended: as C15, but the Analysis tab shows the part of the reply
\* before the start marker without its leading and trailing blanks.
C15_TrimmedTextBeforeStart ==
    [][ (_finalize_analysis_ui /\ final_response.got) =>
        \A i, j, k \in 1..Len(final_response.text) :
          (/\ Delimited(final_response.text, i, j)
           /\ HoldsDoc(final_response.text, i, j, k)
           /\ AllNumeric(final_response.text[k])) =>
              /\ markers = [m \in 1..Len(JsonValue(final_response.text[k]).items) |->
                              [lat |-> JsonValue(final_response.text[k]).items[m].lat,
                               lon |-> JsonValue(final_response.text[k]).items[m].lon,
                               text |-> m]]
              /\ Len(analysis_text) = 1 /\ analysis_text[1].k = "analysis"
              /\ IsTrimOf(analysis_text[1].t, SubSeq(final_response.text, 1, i - 1)) ]_vars

\* C15 witness: a two-record reply is shown: two markers labelled 1 and 2,
\* and the text before the start marker.
C15_Witness ==
    /\ ReplyShown
    /\ final_response.text = <<"text", JSON_START, "[A,B]", JSON_END>>
    /\ Len(markers) = 2 /\ markers[1].text = 1 /\ markers[2].text = 2
    /\ analysis_text = <<Msg("analysis", 0, <<"text">>)>>

\* C16: when the markers are in order but the block between them does not
\* deserialize (it is not one JSON document that json.loads reads), the map
\* has no marker, the coordinate channel shows a parse error holding the
\* block (without its leading and trailing blanks), and the Analysis tab
\* shows the text before the start marker (likewise).
C16_MalformedBlock ==
    [][ (_finalize_analysis_ui /\ final_response.got) =>
        \A i, j \in 1..Len(final_response.text) :
          (/\ Delimited(final_response.text, i, j)
           /\ ~ \E k \in 1..Len(final_response.text) :
                    HoldsDoc(final_response.text, i, j, k)) =>
              /\ markers = <<>>
              /\ coords_status_label.k = "Error parsing JSON block"
              /\ IsTrimOf(coords_status_label.t, SubSeq(final_response.text, i + 1, j - 1))
              /\ Len(analysis_text) = 1 /\ analysis_text[1].k = "analysis"
              /\ IsTrimOf(analysis_text[1].t, SubSeq(final_response.text, 1, i - 1)) ]_vars

\* C17: plot_markers_on_map plots one marker for every record whose latitude
\* and longitude are both numeric and for no other, in list order, each
\* labelled with the 1-based position of its record; with at least one such
\* record it reports their number and centres the view on the first of them;
\* with none (also for an empty list and for a value that is no list) it
\* plots nothing, leaves the view alone and reports that there is no
\* coordinate to plot ("no valid coordinates to plot" for a list of invalid
\* records, "empty or not a list" otherwise).
C17_SkipsInvalidRecords ==
    [][ plot_markers_on_map =>
          LET data  == Head(uiQueue).data
              valid == IF data.list
                       THEN {n \in 1..Len(data.items) :
                                data.items[n].lat_ok /\ data.items[n].lon_ok}
                       ELSE {}
          IN  /\ Len(markers') = Cardinality(valid)
              /\ \A m \in 1..Len(markers') :
                    /\ markers'[m].text \in valid
                    /\ markers'[m].lat = data.items[markers'[m].text].lat
                    /\ markers'[m].lon = data.items[markers'[m].text].lon
                    /\ \A q \in 1..(m - 1) : markers'[q].text < markers'[m].text
              /\ IF valid # {}
                 THEN /\ coords_status_label' =
                           Msg("Plotted potential locations (ranked).", Cardinality(valid), <<>>)
                      /\ map_view' = [lat |-> markers'[1].lat, lon |-> markers'[1].lon,
                                      zoom |-> 10]
                      /\ \A n \in valid : markers'[1].text <= n
                 ELSE /\ map_view' = map_view
                      /\ coords_status_label' =
                           IF data.list /\ data.items # <<>>
                           THEN Line("Parsed JSON, but no valid coordinates to plot.")
                           ELSE Line("Parsed JSON coordinate data is empty or not a list.") ]_vars

\* ------------------------------------------- claims on the controller
\* The combined turn of final analysis a has been built (line 384).
TurnBuilt(a) == a \in DOMAIN analysts /\ analysts[a].pc \in {"send", "sending"}

\* C18 as stated: the combined turn holds every frame captured in the
\* session, in the order in which their units were dispatched.
C18_InDispatchOrder ==
    \A a \in DOMAIN analysts :
        TurnBuilt(a) =>
            /\ \A i, j \in 1..Len(analysts[a].parts) :
                  i < j => analysts[a].parts[i] < analysts[a].parts[j]
            /\ \A i \in 1..Len(captured_frames) :
                  \E m \in 1..Len(analysts[a].parts) :
                      analysts[a].parts[m] = captured_frames[i]

\* C18 amended: the combined turn holds the frames that were in the frame
\* sequence when the turn was built, in the order in which they were
\* appended: every frame held when the stop was issued, followed by those
\* that units in flight appended before line 384; what is appended later
\* follows them in the frame sequence and is not in the turn.
C18_InAppendOrder ==
    \A a \in DOMAIN analysts :
        (TurnBuilt(a) /\ a \in DOMAIN stop_log) =>
            /\ IsPrefix(stop_log[a].at_stop, analysts[a].parts)
            /\ IsPrefix(analysts[a].parts, captured_frames)

\* C18 witness: a turn is being sent that holds the second unit's frame before
\* the first unit's, the first having been appended after the stop.
C18_Witness ==
    /\ 1 \in DOMAIN analysts /\ analysts[1].pc = "sending"
    /\ analysts[1].parts = <<2, 1>>
    /\ 1 \in DOMAIN stop_log /\ stop_log[1].at_stop = <<2>>

\* A step of unit w after its state check of line 309.
UnitStep(w) ==
    W_capture(w) \/ W_append(w) \/ W_incr_load(w) \/ W_incr_store(w) \/ W_post(w)

\* C19: a pause or a stop removes the armed tick from the timer queue and
\* touches no running unit, the frames or the counter; a unit that has passed
\* its state check can take its next step in every state, and when its send
\* returns it appends its frame and then stores the counter it read plus one,
\* whatever the state has become.
C19_InFlightCompletes ==
    /\ [][ ((toggle_pause_resume /\ state = "RECORDING") \/
            (stop_and_analyze /\ state \in {"RECORDING", "PAUSED"})) =>
              /\ UNCHANGED <<workers, captured_frames, frame_count>>
              /\ pending' = pending \ {frame_sender_job_id} ]_vars
    /\ [](\A w \in DOMAIN workers : workers[w].pc # "check" => ENABLED UnitStep(w))
    /\ [][ \A w \in DOMAIN workers :
              /\ (/\ workers[w].pc = "sending"
                  /\ w \in DOMAIN workers' /\ workers'[w].pc = "incr_load") =>
                      captured_frames' = Append(captured_frames, w)
              /\ (/\ workers[w].pc = "incr_store"
                  /\ w \in DOMAIN workers' /\ workers'[w].pc = "post") =>
                      frame_count' = workers[w].tmp + 1 ]_vars

\* C19 witness: the stop was issued with no frame held; the unit in flight
\* has since appended its frame and counted it, in ANALYZING.
C19_Witness ==
    /\ state = "ANALYZING"
    /\ 1 \in DOMAIN stop_log /\ stop_log[1].at_stop = <<>>
    /\ captured_frames = <<1>> /\ frame_count = 1 /\ workers = <<>>

\* C20: a tick is armed exactly while the state is RECORDING; a tick that
\* fires in RECORDING dispatches one unit and arms the next tick in the same
\* step, while its unit has yet to run; and a unit is dispatched only by a
\* tick firing in RECORDING.
C20_TickOnlyWhileRecording ==
    /\ [](state = "RECORDING" <=> pending # {})
    /\ [][ (send_frame_task /\ state = "RECORDING") =>
              /\ pending' # {} /\ frame_sender_job_id' \in pending'
              /\ nDispatched' = nDispatched + 1
              /\ nDispatched' \in DOMAIN workers'
              /\ workers'[nDispatched'].pc = "check" ]_vars
    /\ [][ (DOMAIN workers' \ DOMAIN workers # {} \/ nDispatched' # nDispatched) =>
              (send_frame_task /\ state = "RECORDING") ]_vars

\* C21: a frame is appended to the frame sequence, and the counter is stored,
\* only by a unit whose send went to the session handle that is current at
\* that step; a unit of an earlier session that completes late changes
\* neither the frame sequence nor the counter.
C21_FramesOfCurrentSession ==
    [][ \A w \in DOMAIN workers :
          /\ (/\ workers[w].pc = "sending"
              /\ w \in DOMAIN workers' /\ workers'[w].pc = "incr_load") =>
                  (workers[w].sess = chat_session \/ captured_frames' = captured_frames)
          /\ (/\ workers[w].pc = "incr_store"
              /\ w \in DOMAIN workers' /\ workers'[w].pc = "post") =>
                  (workers[w].sess = chat_session \/ frame_count' = frame_count) ]_vars

\* C22: in a combined turn that has been built, the frame count named in the
\* introductory text equals the number of frames the turn holds.
C22_IntroCountsTurnFrames ==
    \A a \in DOMAIN analysts :
        TurnBuilt(a) => analysts[a].n = Len(analysts[a].parts)

\* C23: at most one timer tick is pending at any time, and the stored timer
\* job id, whenever it is set, is the id of a pending tick.
C23_OneTickPending ==
    /\ Cardinality(pending) <= 1
    /\ frame_sender_job_id # None => frame_sender_job_id \in pending

\* The Analysis tab ends with the outcome of a final analysis: the analysis
\* text of a reply, or an error.
TextOutcomeShown ==
    /\ analysis_text # <<>>
    /\ analysis_text[Len(analysis_text)].k \in
          { "analysis", "--- ANALYSIS ERROR ---",
            "Error: No active session to analyze.",
            "Error: No frames were captured during the session." }

\* The label under the map shows the outcome of a final analysis: a plot
\* result, a warning or an error.
CoordsOutcomeShown ==
    coords_status_label.k \in
        { "Plotted potential locations (ranked).",
          "Parsed JSON, but no valid coordinates to plot.",
          "Parsed JSON coordinate data is empty or not a list.",
          "Error parsing JSON block",
          "Warning: JSON markers not found.",
          "Analysis Error",
          "Error: No active session to analyze.",
          "Error: No frames were captured during the session." }

\* A callback of a final analysis other than its completion step is posted.
ResultPending ==
    \E i \in 1..Len(uiQueue) :
        uiQueue[i].cb \notin {"update_frame_count", "_finalize_analysis_ui"}

\* C24: when the completion step of a final analysis runs, the text channel
\* and the coordinate channel both show an outcome of that analysis; and
\* outside ANALYZING no analysis thread runs and no result of an analysis is
\* still waiting to be displayed.
C24_ResultsBeforeIdle ==
    /\ [][ _finalize_analysis_ui => (TextOutcomeShown /\ CoordsOutcomeShown) ]_vars
    /\ [](state # "ANALYZING" => (analysts = <<>> /\ ~ResultPending))

====
